---- MODULE Spec2Model ----
(***************************************************************************)
(* A model of swiss_locator/swiss_locator_filter.py: the tagged-result     *)
(* model (WMSLayerResult, LocationResult, FeatureResult, NoResult and      *)
(* result_from_data), the chunking of the feature search, the request      *)
(* fan-out of SwissLocatorFilter.fetchResults / handle_response with its   *)
(* event loops and cancellation wiring, and triggerResult.                 *)
(*                                                                         *)
(* Four specifications share the module, each over its own variables (the  *)
(* variables of the others stay at their initial value):                   *)
(*   SpecChunks   the loop that splits the searchable layers into requests *)
(*   SpecCodec    as_definition followed by result_from_data               *)
(*   Spec         fetchResults, its replies and the cancellation           *)
(*   SpecTrigger  triggerResult on the main-thread filter object           *)
(***************************************************************************)
EXTENDS Integers, Sequences, FiniteSets

\* ---------------------------------------------------------- variables
\* The chunking loop of the feature search.
VARIABLES chunk_layers, chunk_l, chunk_keys
\* A result object, its user data and the object decoded from it.
VARIABLES codec_result, codec_userData, codec_decoded

\* The filter object that runs fetchResults, with its settings, the feedback
\* of the call in progress and the resultFetched signal.
VARIABLES type, include_opendataswiss, searchable_layers,
          pc, search, calls, canceled,
          result_found, access_managers, event_loop,
          search_urls, resources, visited_capabilities, cap_nam,
          emitted, aborted, found_before, requests, logged
\* The filter object of the main thread, which triggers results, with the
\* map canvas, the project and the message_emitted signal.
VARIABLES show_map_tip, triggers, trigger_args, swiss_result,
          rubber_band, feature_rubber_band, map_tip, current_timer,
          nam_fetch_feature, nam_map_tip,
          extent, project_layers, messages

chunk_vars == <<chunk_layers, chunk_l, chunk_keys>>
trigger_vars ==
    <<show_map_tip, triggers, trigger_args, swiss_result, rubber_band,
      feature_rubber_band, map_tip, current_timer, nam_fetch_feature,
      nam_map_tip, extent, project_layers, messages>>
search_vars ==
    <<type, include_opendataswiss, searchable_layers, pc, search, calls,
      canceled, result_found, access_managers, event_loop, search_urls,
      resources, visited_capabilities, cap_nam, emitted, aborted,
      found_before, requests, logged>>
codec_vars == <<codec_result, codec_userData, codec_decoded>>

\* ------------------------------------------------------------- bounds
\* The largest number of searchable layers SpecChunks splits.
MaxLayers == 61
\* Coordinates of points and rectangles range over 0..MaxCoord.
MaxCoord == 1
\* The number of fetchResults calls on one filter object.
MaxSearches == 2
\* The longest search text.
MaxSearchLen == 4
\* The largest number of chunk requests of a feature search in Spec.
MaxChunks == 3
\* The largest number of results in one search-server reply, and of matching
\* layers in one capabilities document.
MaxResults == 1
\* The largest number of resources in one opendata.swiss reply.
MaxResources == 2
\* The number of triggerResult calls on one filter object.
MaxTriggers == 2

\* ---------------------------------------------------- program constants
\* fetchResults: step = 30
step == 30

\* Python's None.
None == "None"

Min(a, b) == IF a < b THEN a ELSE b

\* ======================================================================
\* The chunking of the feature search (fetchResults, lines 389-395)
\* ======================================================================
\* The searchable layers are layers[0], ..., layers[n-1]; a layer is named
\* here by its index in the list.

\* last = min(l + step - 1, len(layers) - 1)
ChunkLast(l, n) == Min(l + step - 1, n - 1)

\* layers[a:b], a Python slice: the elements of index a, ..., b-1.
Slice(a, b) == [i \in 1..(IF b > a THEN b - a ELSE 0) |-> a + i - 1]

\* The value of swisstopo_base_params['features'] in the iteration that
\* starts at index l: ','.join(layers[l:last]), as the list it joins.
Features(l, n) == Slice(l, ChunkLast(l, n))

\* d[key] = None on a dictionary kept as the sequence of its keys in
\* insertion order: a key already present keeps its place.
DictSetNone(keys, key) ==
    IF \E i \in 1..Len(keys) : keys[i] = key THEN keys ELSE Append(keys, key)

\* chunk_layers: len(layers); chunk_l: the loop variable l of
\* range(0, len(layers), step); chunk_keys: the 'features' lists of the keys
\* put into access_managers so far.
ChunkInit ==
    /\ chunk_layers \in 1..MaxLayers
    /\ chunk_l = 0
    /\ chunk_keys = <<>>

\* The specifications that are not about the chunking keep these values.
ChunkIdle ==
    /\ chunk_layers = 0
    /\ chunk_l = 0
    /\ chunk_keys = <<>>

\* One iteration of `for l in range(0, len(layers), step)`.
ChunkIteration ==
    /\ chunk_l < chunk_layers
    /\ chunk_keys' = DictSetNone(chunk_keys, Features(chunk_l, chunk_layers))
    /\ chunk_l' = chunk_l + step
    /\ UNCHANGED chunk_layers
    /\ UNCHANGED <<codec_vars, search_vars, trigger_vars>>

ChunkLoopDone == chunk_l >= chunk_layers

\* ======================================================================
\* The tagged-result model (lines 67-154)
\* ======================================================================
Coords == 0..MaxCoord
\* QgsPointXY
Points == [x : Coords, y : Coords]
\* QgsRectangle, with a positive width and height
Rectangles ==
    {r \in [xmin : Coords, ymin : Coords, xmax : Coords, ymax : Coords] :
        r.xmin < r.xmax /\ r.ymin < r.ymax}

LayerIds == {"ch.layer.a", "ch.layer.b"}
Titles == {"Title A", "Title B"}
WmsUrls == {"http://wms.geo.admin.ch/?VERSION%3D2.0.0", "https://wms.example.org/?"}
FeatureIds == {"1001", None}
HtmlLabels == {"<b>Bern</b>"}

\* The objects of the three result classes, by their attributes.
WMSLayerResults ==
    [type : {"WMSLayerResult"}, title : Titles, layer : LayerIds, url : WmsUrls]
LocationResults ==
    [type : {"LocationResult"}, point : Points, bbox : Rectangles,
     layer : {"ch.layer.a", None}, feature_id : FeatureIds,
     html_label : HtmlLabels]
FeatureResults ==
    [type : {"FeatureResult"}, point : Points, layer : LayerIds,
     feature_id : {"1001", "1002"}]
NoResultObject == [type |-> "NoResult"]

\* WMSLayerResult.__init__(self, layer, title, url)
WMSLayerResult(layer, title, url) ==
    [type |-> "WMSLayerResult", title |-> title, layer |-> layer, url |-> url]

\* LocationResult.__init__(self, point, bbox, layer, feature_id, html_label)
LocationResult(point, bbox, layer, feature_id, html_label) ==
    [type |-> "LocationResult", point |-> point, bbox |-> bbox,
     layer |-> layer, feature_id |-> feature_id, html_label |-> html_label]

\* FeatureResult.__init__(self, point, layer, feature_id)
FeatureResult(point, layer, feature_id) ==
    [type |-> "FeatureResult", point |-> point, layer |-> layer,
     feature_id |-> feature_id]

\* QgsPointXY.asWkt(): the text "Point (x y)", by its tokens.
asWkt(p) == <<"Point", p.x, p.y>>

\* QgsGeometry.fromWkt(wkt).asPoint()
fromWktAsPoint(wkt) == [x |-> wkt[2], y |-> wkt[3]]

\* QgsRectangle.asWktPolygon(): the closed ring of the four corners.
asWktPolygon(r) ==
    <<"Polygon", <<r.xmin, r.ymin>>, <<r.xmax, r.ymin>>, <<r.xmax, r.ymax>>,
      <<r.xmin, r.ymax>>, <<r.xmin, r.ymin>>>>

\* QgsRectangle.fromWkt(wkt): the rectangle of the first and the third vertex.
RectangleFromWkt(wkt) ==
    [xmin |-> wkt[2][1], ymin |-> wkt[2][2], xmax |-> wkt[4][1], ymax |-> wkt[4][2]]

\* A JSON document is the sequence of its <<key, value>> members; a value is
\* <<"string", s>> or <<"null">>.
JsonValue(v) == IF v = None THEN <<"null">> ELSE <<"string", v>>
\* A WKT text is a string too.
JsonText(t) == <<"string", t>>
PyValue(j) == IF j[1] = "null" THEN None ELSE j[2]

\* dict_data[key] of json.loads(definition)
Member(definition, key) ==
    PyValue(definition[CHOOSE i \in 1..Len(definition) : definition[i][1] = key][2])

\* WMSLayerResult.as_definition
WMSLayerResult_as_definition(self) ==
    << <<"type", JsonValue("WMSLayerResult")>>,
       <<"title", JsonValue(self.title)>>,
       <<"layer", JsonValue(self.layer)>>,
       <<"url", JsonValue(self.url)>> >>

\* LocationResult.as_definition
LocationResult_as_definition(self) ==
    << <<"type", JsonValue("LocationResult")>>,
       <<"point", JsonText(asWkt(self.point))>>,
       <<"bbox", JsonText(asWktPolygon(self.bbox))>>,
       <<"layer", JsonValue(self.layer)>>,
       <<"feature_id", JsonValue(self.feature_id)>>,
       <<"html_label", JsonValue(self.html_label)>> >>

\* FeatureResult.as_definition
FeatureResult_as_definition(self) ==
    << <<"type", JsonValue("FeatureResult")>>,
       <<"point", JsonText(asWkt(self.point))>>,
       <<"layer", JsonValue(self.layer)>>,
       <<"feature_id", JsonValue(self.feature_id)>> >>

\* NoResult.as_definition
NoResult_as_definition == << <<"type", JsonValue("NoResult")>> >>

\* r.as_definition(), dispatched on the class of r.
as_definition(r) ==
    CASE r.type = "WMSLayerResult" -> WMSLayerResult_as_definition(r)
      [] r.type = "LocationResult" -> LocationResult_as_definition(r)
      [] r.type = "FeatureResult" -> FeatureResult_as_definition(r)
      [] OTHER -> NoResult_as_definition

\* from_dict with title and layer passed in each other's place.
WMSLayerResult_from_dict_swapped(d) ==
    WMSLayerResult(Member(d, "title"), Member(d, "layer"), Member(d, "url"))

\* WMSLayerResult.from_dict
WMSLayerResult_from_dict(d) ==
    WMSLayerResult(Member(d, "layer"), Member(d, "title"), Member(d, "url"))

\* LocationResult.from_dict
LocationResult_from_dict(d) ==
    LocationResult(fromWktAsPoint(Member(d, "point")),
                   RectangleFromWkt(Member(d, "bbox")),
                   Member(d, "layer"), Member(d, "feature_id"),
                   Member(d, "html_label"))

\* FeatureResult.from_dict
FeatureResult_from_dict(d) ==
    FeatureResult(fromWktAsPoint(Member(d, "point")), Member(d, "layer"),
                  Member(d, "feature_id"))

\* result_from_data(result), on the user data of the locator result.
result_from_data(definition) ==
    LET tag == Member(definition, "type")
    IN  IF tag = "WMSLayerResult" THEN WMSLayerResult_from_dict(definition)
        ELSE IF tag = "LocationResult" THEN LocationResult_from_dict(definition)
        ELSE IF tag = "FeatureResult" THEN FeatureResult_from_dict(definition)
        ELSE NoResultObject

\* User data that no class of the module wrote: an unknown type tag.
ForeignDefinitions ==
    { << <<"type", JsonValue(t)>>, <<"layer", JsonValue("ch.layer.a")>> >> :
        t \in {"PointResult", "wmslayerresult", ""} }

Unset == [type |-> "unset"]

\* codec_result: the result object r (Unset for foreign user data);
\* codec_userData: result.userData; codec_decoded: result_from_data(result).
CodecInit ==
    /\ codec_decoded = Unset
    /\ \/ /\ codec_result \in
               WMSLayerResults \cup LocationResults \cup FeatureResults
                 \cup {NoResultObject}
          /\ codec_userData = <<>>
       \/ /\ codec_result = Unset
          /\ codec_userData \in ForeignDefinitions

CodecIdle ==
    /\ codec_result = Unset
    /\ codec_userData = <<>>
    /\ codec_decoded = Unset

\* result.userData = r.as_definition()
CodecEncode ==
    /\ codec_result # Unset
    /\ codec_userData = <<>>
    /\ codec_userData' = as_definition(codec_result)
    /\ UNCHANGED <<codec_result, codec_decoded>>
    /\ UNCHANGED <<chunk_vars, search_vars, trigger_vars>>

\* result_from_data(result)
CodecDecode ==
    /\ codec_userData # <<>>
    /\ codec_decoded = Unset
    /\ codec_decoded' = result_from_data(codec_userData)
    /\ UNCHANGED <<codec_result, codec_userData>>
    /\ UNCHANGED <<chunk_vars, search_vars, trigger_vars>>

\* ======================================================================
\* fetchResults, handle_response and the replies (lines 338-595)
\* ======================================================================
FilterTypes == {"Location", "WMS", "Feature"}

\* A search text is modelled by its length.
SearchTexts == 0..MaxSearchLen

\* if len(search) < 2: return
MinSearchLen == 2
\* if len(search) < 4 and self.type is FilterType.Feature: return
MinFeatureSearchLen == 4

\* The early returns without the rule for the feature filter.
TooShortIgnoringType(text, t) == text < MinSearchLen

\* The two early returns of fetchResults.
TooShort(text, t) ==
    \/ text < MinSearchLen
    \/ text < MinFeatureSearchLen /\ t = "Feature"

\* len(self.searchable_layers) in Spec: one count per number of requests.
SearchLayerCounts == {c * step : c \in 1..MaxChunks}

\* The hosts of the GetCapabilities resources of an opendata.swiss reply.
Netlocs == {1, 2}

\* A resource of an opendata.swiss reply: a WMS GetMap resource (its url
\* holds 'wms', media_type 'WMS', title 'GetMap'), a GetCapabilities url on
\* the host netloc, or a resource that is neither.
Resources ==
    {[kind |-> "GetMap", netloc |-> 1], [kind |-> "Other", netloc |-> 1]}
      \cup [kind : {"GetCapabilities"}, netloc : Netlocs]

RECURSIVE SeqsUpTo(_, _)
SeqsUpTo(S, n) ==
    IF n = 0 THEN {<<>>}
    ELSE LET shorter == SeqsUpTo(S, n - 1)
         IN  shorter \cup {Append(q, x) : q \in shorter, x \in S}

\* A nam variable that holds no NetworkAccessManager.
NoNam == [url |-> 0, state |-> "None"]

\* search_urls, lines 367-370
SearchUrls(t, include) ==
    IF include /\ t = "WMS" THEN <<"SearchServer", "opendata.swiss">>
    ELSE <<"SearchServer">>

\* The variant handle_response builds for a search-server result, by
\* loc['attrs']['origin'] (lines 535, 546, 566).
ResultKind(origin) ==
    IF origin = "layer" THEN "WMSLayerResult"
    ELSE IF origin = "feature" THEN "FeatureResult"
    ELSE "LocationResult"

\* The origin of the results the search server returns for 'type'.
OriginOf(t) ==
    IF t = "WMS" THEN "layer" ELSE IF t = "Feature" THEN "feature" ELSE "address"

\* The url built from swisstopo_base_params: the search text and 'features'.
ChunkUrl(text, features) == [searchText |-> text, features |-> features]

\* The keys of access_managers after the loop of lines 392-395.
RECURSIVE ChunkUrls(_, _, _, _)
ChunkUrls(keys, l, n, text) ==
    IF l >= n THEN keys
    ELSE ChunkUrls(DictSetNone(keys, ChunkUrl(text, Features(l, n))),
                   l + step, n, text)

\* fetchResults without the reset of result_found.
ResultFoundKept == result_found

\* self.result_found = False (line 348)
ResultFoundAtStart == FALSE

\* self.access_managers = {} (line 387)
AccessManagersAtStart == <<>>

\* The part of the state the sequential code of fetchResults and
\* handle_response works on.
CurState ==
    [pc |-> pc, result_found |-> result_found, emitted |-> emitted,
     resources |-> resources, visited_capabilities |-> visited_capabilities,
     cap_nam |-> cap_nam, search_urls |-> search_urls,
     event_loop |-> event_loop, requests |-> requests, logged |-> logged]

SetState(st) ==
    /\ pc' = st.pc
    /\ result_found' = st.result_found
    /\ emitted' = st.emitted
    /\ resources' = st.resources
    /\ visited_capabilities' = st.visited_capabilities
    /\ cap_nam' = st.cap_nam
    /\ search_urls' = st.search_urls
    /\ event_loop' = st.event_loop
    /\ requests' = st.requests
    /\ logged' = st.logged

\* An entry of the resultFetched signal: the variant of its user data, the
\* search text of the request whose reply it was built from, and the number
\* of the fetchResults call in progress when it was emitted (0: none).
Entry(kind, query, during) == [kind |-> kind, query |-> query, during |-> during]

\* self.result_found = True; self.resultFetched.emit(result)
EmitResult(st, kind, query, during) ==
    [st EXCEPT !.result_found = TRUE,
               !.emitted = Append(@, Entry(kind, query, during))]

RECURSIVE EmitResults(_, _, _, _, _)
EmitResults(st, k, kind, query, during) ==
    IF k = 0 THEN st
    ELSE EmitResults(EmitResult(st, kind, query, during), k - 1, kind, query, during)

\* The response objects of the NetworkAccessManager: status 200, or another
\* status (0: no HTTP status) with the exception of the request, if any. The
\* response of an aborted request carries a RequestsExceptionUserAbort and
\* no HTTP status.
Responses ==
    {r \in [status_code : {0, 200, 404},
            exception : {"None", "RequestsException",
                         "RequestsExceptionUserAbort"}] :
        /\ r.status_code = 200 => r.exception = "None"
        /\ r.status_code = 0 <=> r.exception = "RequestsExceptionUserAbort"}

\* The response of a request that nam.abort has ended.
AbortedResponse ==
    [status_code |-> 0, exception |-> "RequestsExceptionUserAbort"]

\* The responses of requests that were not aborted.
Replies == Responses \ {AbortedResponse}

\* An entry of requests for a request that was just issued: the server it
\* goes to, what became of it ("pending", or "200", "not 200" or "user abort"
\* for the response that handle_response was given, or the exception that
\* nam.request raised) and, for a request of the blocking loop, the number
\* of results its response carried.
Request(url) == [url |-> url, outcome |-> "pending", results |-> 0]

\* What became of request i.
Answered(st, i, outcome) == [st EXCEPT !.requests[i].outcome = outcome]

\* The response to the request of the blocking loop carried k results more.
Carried(st, k) == [st EXCEPT !.requests[Len(st.requests)].results = @ + k]

Outcome(response) ==
    IF response.status_code = 200 THEN "200"
    ELSE IF response.exception = "RequestsExceptionUserAbort" THEN "user abort"
    ELSE "not 200"

\* The error message without the test for a user abort.
LogsErrorAlways(response) == TRUE

\* if not isinstance(response.exception, RequestsExceptionUserAbort) (line 449)
LogsError(response) == response.exception # "RequestsExceptionUserAbort"

\* handle_response on a response whose status code is not 200 (lines 448-452).
HandleNot200(st, response) ==
    IF LogsError(response)
    THEN [st EXCEPT !.logged = Append(@, "Error in main response")]
    ELSE st

\* Lines 432-437 and the return of fetchResults.
Finish(st, query, during) ==
    [(IF st.result_found THEN st
      ELSE [st EXCEPT !.emitted = Append(@, Entry("NoResult", query, during))])
     EXCEPT !.pc = "idle"]

\* The for loop of lines 372-381 after a request has been dealt with: the
\* blocking request of the next url, or the end of the loop.
NextUrl(st, query, during) ==
    LET rest == [st EXCEPT !.search_urls = Tail(@)]
    IN  IF rest.search_urls = <<>> THEN Finish(rest, query, during)
        ELSE [rest EXCEPT !.pc = "req",
                          !.requests = Append(@, Request(Head(rest.search_urls)))]

\* The search ends at the first request that raises.
RequestRaisedEndsSearch(st, err, query, during) ==
    Finish([st EXCEPT !.search_urls = <<>>], query, during)

\* The except clauses of lines 378-381 for the exception err that
\* nam.request has raised, and the next turn of the loop.
RequestRaised(st, err, query, during) ==
    NextUrl(IF err = "RequestsException"
            THEN [st EXCEPT !.logged = Append(@, err)]
            ELSE st,
            query, during)

\* The GetMap resources among rs.
GetMaps(rs) == {j \in 1..Len(rs) : rs[j].kind = "GetMap"}

\* reply_finished for every running request after nam.abort: handle_response
\* on the response of an aborted request.
RECURSIVE HandleAborted(_, _, _)
HandleAborted(st, am, i) ==
    IF i > Len(am) THEN st
    ELSE HandleAborted(
             IF am[i].nam = "running"
             THEN HandleNot200(Answered(st, i, Outcome(AbortedResponse)),
                               AbortedResponse)
             ELSE st,
             am, i + 1)

\* handle_response on an opendata.swiss reply (lines 457-526): the loop over
\* the resources, up to the next GetCapabilities request and its event loop,
\* or to the return into fetchResults.
RECURSIVE HandleResources(_, _, _)
HandleResources(st, query, during) ==
    IF st.resources = <<>> THEN NextUrl(st, query, during)
    ELSE LET res == Head(st.resources)
             rest == [st EXCEPT !.resources = Tail(@)]
         IN  IF res.kind = "GetMap"
             THEN HandleResources(
                      EmitResult(rest, "WMSLayerResult", query, during),
                      query, during)
             ELSE IF /\ res.kind = "GetCapabilities"
                     /\ res.netloc \notin st.visited_capabilities
             THEN [rest EXCEPT
                      !.visited_capabilities = @ \cup {res.netloc},
                      !.cap_nam = [url |-> res.netloc, state |-> "running"],
                      !.event_loop = "running",
                      !.pc = "cap"]
             ELSE HandleResources(rest, query, during)

\* The requests of the search that are in flight.
InFlight ==
    (IF pc = "req" THEN {[kind |-> Head(search_urls), key |-> 0]} ELSE {})
      \cup (IF pc = "cap" /\ cap_nam.state = "running"
            THEN {[kind |-> "GetCapabilities", key |-> cap_nam.url]} ELSE {})
      \cup {[kind |-> "featuresearch", key |-> i] :
              i \in {j \in 1..Len(access_managers) :
                       access_managers[j].nam = "running"}}

\* The variables of the filter object after __init__. type is the filter
\* type, include_opendataswiss the setting 'layers_include_opendataswiss'
\* (read by the WMS filter only) and searchable_layers the number of
\* searchable layers (read by the feature filter only). emitted holds the
\* entries of resultFetched since the start of the last qualifying search,
\* aborted the requests of that search that nam.abort has aborted, and
\* found_before the value result_found had when that search started.
SearchInit ==
    /\ type \in FilterTypes
    /\ include_opendataswiss \in (IF type = "WMS" THEN BOOLEAN ELSE {FALSE})
    /\ searchable_layers \in
          (IF type = "Feature" THEN SearchLayerCounts ELSE {step})
    /\ pc = "idle"
    /\ search = 0
    /\ calls = 0
    /\ canceled = FALSE
    /\ result_found = FALSE
    /\ access_managers = <<>>
    /\ event_loop = "None"
    /\ search_urls = <<>>
    /\ resources = <<>>
    /\ visited_capabilities = {}
    /\ cap_nam = NoNam
    /\ emitted = <<>>
    /\ aborted = {}
    /\ found_before = FALSE
    /\ requests = <<>>
    /\ logged = <<>>

SearchIdle ==
    /\ type = "Location"
    /\ include_opendataswiss = FALSE
    /\ searchable_layers = 0
    /\ pc = "idle"
    /\ search = 0
    /\ calls = 0
    /\ canceled = FALSE
    /\ result_found = FALSE
    /\ access_managers = <<>>
    /\ event_loop = "None"
    /\ search_urls = <<>>
    /\ resources = <<>>
    /\ visited_capabilities = {}
    /\ cap_nam = NoNam
    /\ emitted = <<>>
    /\ aborted = {}
    /\ found_before = FALSE
    /\ requests = <<>>
    /\ logged = <<>>

\* fetchResults(search, context, feedback), up to its first wait or its return.
FetchResults(text) ==
    /\ pc = "idle"
    /\ calls < MaxSearches
    /\ calls' = calls + 1
    /\ search' = text
    /\ canceled' = FALSE
    /\ IF TooShort(text, type)
       THEN UNCHANGED <<result_found, access_managers, event_loop, search_urls,
                        resources, visited_capabilities, cap_nam, emitted,
                        aborted, pc, found_before, requests, logged>>
       ELSE /\ aborted' = {}
            /\ found_before' = result_found
            /\ IF type # "Feature"
               THEN /\ SetState(
                          [CurState EXCEPT
                             !.result_found = ResultFoundAtStart,
                             !.emitted = <<>>,
                             !.logged = <<>>,
                             !.search_urls = SearchUrls(type, include_opendataswiss),
                             !.requests =
                                 <<Request(Head(SearchUrls(
                                     type, include_opendataswiss)))>>,
                             !.pc = "req"])
                    /\ UNCHANGED access_managers
               ELSE LET old == AccessManagersAtStart
                        urls == ChunkUrls([i \in 1..Len(old) |-> old[i].url],
                                          0, searchable_layers, text)
                    IN  /\ access_managers' =
                              [i \in 1..Len(urls) |->
                                 [url |-> urls[i], nam |-> "running"]]
                        /\ SetState(
                              [CurState EXCEPT
                                 !.result_found = ResultFoundAtStart,
                                 !.emitted = <<>>,
                                 !.logged = <<>>,
                                 !.requests =
                                     [i \in 1..Len(urls) |->
                                        Request("SearchServer")],
                                 !.event_loop = "running",
                                 !.pc = "loop"])
    /\ UNCHANGED <<type, include_opendataswiss, searchable_layers>>
    /\ UNCHANGED <<chunk_vars, codec_vars, trigger_vars>>

\* The blocking request of lines 376-381 ends: with a response that is
\* handed to handle_response (of a status other than 200, of the search
\* server with k results, or of opendata.swiss with its resources), or with
\* a RequestsException.
BlockingReply ==
    /\ pc = "req"
    /\ LET i == Len(requests)
       IN  \/ \E response \in {r \in Replies : r.status_code # 200} :
                 SetState(NextUrl(
                     HandleNot200(Answered(CurState, i, Outcome(response)),
                                  response),
                     search, calls))
           \/ /\ Head(search_urls) = "SearchServer"
              /\ \E k \in 0..MaxResults :
                    SetState(NextUrl(
                        EmitResults(Carried(Answered(CurState, i, "200"), k), k,
                                    ResultKind(OriginOf(type)), search, calls),
                        search, calls))
           \/ /\ Head(search_urls) = "opendata.swiss"
              /\ \E rs \in SeqsUpTo(Resources, MaxResources) :
                    SetState(HandleResources(
                        [Carried(Answered(CurState, i, "200"),
                                 Cardinality(GetMaps(rs)))
                           EXCEPT !.resources = rs,
                                  !.visited_capabilities = {}],
                        search, calls))
           \/ SetState(RequestRaised(
                  Answered(CurState, i, "RequestsException"),
                  "RequestsException", search, calls))
    /\ UNCHANGED <<type, include_opendataswiss, searchable_layers, search,
                   calls, canceled, access_managers, aborted, found_before>>
    /\ UNCHANGED <<chunk_vars, codec_vars, trigger_vars>>

\* The finished signal of the GetCapabilities request:
\* parse_capabilities_result (lines 491-512). ET.fromstring raises on a body
\* that is no XML document (an error reply has an empty body), and the slot
\* ends there, before self.event_loop.quit().
ParseCapabilitiesResult ==
    /\ pc = "cap"
    /\ cap_nam.state = "running"
    /\ \/ \E m \in 0..MaxResults :
             SetState(HandleResources(
                 [EmitResults(Carried(CurState, m), m,
                              "WMSLayerResult", search, calls)
                    EXCEPT !.cap_nam.state = "finished",
                           !.event_loop = "quit:parse_capabilities_result"],
                 search, calls))
       \/ SetState([CurState EXCEPT !.cap_nam.state = "finished"])
    /\ UNCHANGED <<type, include_opendataswiss, searchable_layers, search,
                   calls, canceled, access_managers, aborted, found_before>>
    /\ UNCHANGED <<chunk_vars, codec_vars, trigger_vars>>

\* The finished signal of the request of access_managers entry i:
\* reply_finished (lines 403-410), with a response of status 200 and k
\* results or a response of another status; matches says whether
\* response.url is the key of the entry. The signal is delivered by the event loop of
\* fetchResults or, after fetchResults has returned, by the caller's.
ReplyFinished(i, response, k, matches) ==
    /\ pc \in {"loop", "idle"}
    /\ i \in 1..Len(access_managers)
    /\ access_managers[i].nam = "running"
    /\ response.status_code # 200 => k = 0
    /\ LET during == IF pc = "loop" THEN calls ELSE 0
           query == access_managers[i].url.searchText
           handled ==
               IF response.status_code # 200
               THEN HandleNot200(Answered(CurState, i, Outcome(response)),
                                 response)
               ELSE EmitResults(Answered(CurState, i, "200"), k,
                                ResultKind(OriginOf("Feature")), query, during)
           am == [access_managers EXCEPT
                    ![i].nam = IF matches THEN None ELSE "finished"]
           quit == am[1].nam = None
           quitted == IF quit
                      THEN [handled EXCEPT !.event_loop = "quit:reply_finished"]
                      ELSE handled
       IN  /\ access_managers' = am
           /\ SetState(IF quit /\ pc = "loop"
                       THEN Finish(quitted, search, calls)
                       ELSE quitted)
    /\ UNCHANGED <<type, include_opendataswiss, searchable_layers, search,
                   calls, canceled, aborted, found_before>>
    /\ UNCHANGED <<chunk_vars, codec_vars, trigger_vars>>

\* feedback.canceled is emitted while fetchResults waits: the slots connected
\* to it run (nam.abort at lines 365 and 421, event_loop.quit at lines 412
\* and 519) and fetchResults goes on up to its next wait or its return.
Cancel ==
    /\ pc \in {"req", "cap", "loop"}
    /\ ~canceled
    /\ canceled' = TRUE
    /\ \/ /\ pc = "req"
          /\ aborted' = aborted \cup InFlight
          /\ SetState(RequestRaised(
                 Answered(CurState, Len(requests),
                          "RequestsExceptionUserAbort"),
                 "RequestsExceptionUserAbort", search, calls))
          /\ UNCHANGED access_managers
       \/ /\ pc = "cap"
          /\ SetState(HandleResources(
                 [CurState EXCEPT !.event_loop = "quit:canceled"],
                 search, calls))
          /\ UNCHANGED <<access_managers, aborted>>
       \/ /\ pc = "loop"
          /\ aborted' = aborted \cup InFlight
          /\ access_managers' =
                [i \in 1..Len(access_managers) |->
                   IF access_managers[i].nam = "running"
                   THEN [access_managers[i] EXCEPT !.nam = None]
                   ELSE access_managers[i]]
          /\ SetState(Finish(
                 [HandleAborted(CurState, access_managers, 1)
                    EXCEPT !.event_loop = "quit:canceled"],
                 search, calls))
    /\ UNCHANGED <<type, include_opendataswiss, searchable_layers, search, calls,
                   found_before>>
    /\ UNCHANGED <<chunk_vars, codec_vars, trigger_vars>>

\* ======================================================================
\* triggerResult and the handlers it arms (lines 249-258, 597-751)
\* ======================================================================
\* A QgsGeometry: its type, its coordinates and the coordinate transform
\* that has been applied to it.
Geometry(wkb, coords) == [wkb |-> wkb, coords |-> coords, transform |-> "None"]

\* QgsGeometry.fromPointXY(point)
fromPointXY(point) == Geometry("Point", point)

\* QgsGeometry.fromRect(rect)
fromRect(rect) == Geometry("Polygon", rect)

\* geometry.transform(ct)
transform(geometry, ct) == [geometry EXCEPT !.transform = ct]

\* geometry.boundingBox()
boundingBox(geometry) ==
    IF geometry.wkb = "Point"
    THEN [xmin |-> geometry.coords.x, ymin |-> geometry.coords.y,
          xmax |-> geometry.coords.x, ymax |-> geometry.coords.y]
    ELSE geometry.coords

\* rect.scale(1.1): the rectangle grown about its centre, in twentieths of
\* the coordinate unit.
Scaled(rect) ==
    [xmin |-> 10 * (rect.xmin + rect.xmax) - 11 * (rect.xmax - rect.xmin),
     xmax |-> 10 * (rect.xmin + rect.xmax) + 11 * (rect.xmax - rect.xmin),
     ymin |-> 10 * (rect.ymin + rect.ymax) - 11 * (rect.ymax - rect.ymin),
     ymax |-> 10 * (rect.ymin + rect.ymax) + 11 * (rect.ymax - rect.ymin)]

\* The extent of the map canvas: a rectangle and the transform of the
\* geometry it was taken from.
Extent(rect, ct) == [rect |-> rect, transform |-> ct]

\* The extent of the canvas before any result is triggered.
FullExtent ==
    Extent([xmin |-> -2000, xmax |-> 2000, ymin |-> -2000, ymax |-> 2000], "None")

\* The results the locator hands to triggerResult.
TriggerResults ==
    {r \in WMSLayerResults : r.title = "Title A" /\ r.layer = "ch.layer.a"}
      \cup {r \in LocationResults : r.point.x = 0}
      \cup {r \in FeatureResults : r.point.x = 0 /\ r.layer = "ch.layer.a"}
      \cup {NoResultObject}

\* Their user data, and user data with an unknown type tag.
TriggerUserData ==
    {as_definition(r) : r \in TriggerResults} \cup ForeignDefinitions

\* The part of the state triggerResult and the handlers work on.
CurTrigger ==
    [rubber_band |-> rubber_band, feature_rubber_band |-> feature_rubber_band,
     map_tip |-> map_tip, current_timer |-> current_timer,
     nam_fetch_feature |-> nam_fetch_feature, nam_map_tip |-> nam_map_tip,
     extent |-> extent, project_layers |-> project_layers,
     messages |-> messages]

SetTrigger(ts) ==
    /\ rubber_band' = ts.rubber_band
    /\ feature_rubber_band' = ts.feature_rubber_band
    /\ map_tip' = ts.map_tip
    /\ current_timer' = ts.current_timer
    /\ nam_fetch_feature' = ts.nam_fetch_feature
    /\ nam_map_tip' = ts.nam_map_tip
    /\ extent' = ts.extent
    /\ project_layers' = ts.project_layers
    /\ messages' = ts.messages

\* clearPreviousResults (lines 249-258). A rubber band is the sequence of
\* the geometries added to it; map_tip, current_timer and the two nam
\* attributes are <<>> when they hold None.
clearPreviousResults(ts) ==
    [ts EXCEPT !.rubber_band = <<>>,
               !.feature_rubber_band = <<>>,
               !.map_tip = <<>>,
               !.current_timer = <<>>]

\* highlight(point, bbox) (lines 678-686)
highlight(ts, point, bbox) ==
    [ts EXCEPT !.rubber_band = <<point>>,
               !.extent = Extent(Scaled(boundingBox(bbox)), bbox.transform)]

\* Python's truth value of a layer id or feature id.
Truthy(v) == v # None /\ v # ""

\* fetch_feature(layer, feature_id) (lines 688-700), in call number n.
fetch_feature(ts, layer, feature_id, n) ==
    [ts EXCEPT !.nam_fetch_feature =
        <<[of |-> n, layer |-> layer, feature_id |-> feature_id,
           state |-> "running"]>>]

\* show_map_tip(layer, feature_id, point) (lines 727-740), in call number n.
ShowMapTip(ts, layer, feature_id, point, n) ==
    IF Truthy(layer) /\ Truthy(feature_id)
    THEN [ts EXCEPT !.nam_map_tip =
             <<[of |-> n, point |-> point, state |-> "running"]>>]
    ELSE ts

\* addMapLayer outside the check of wms_layer.isValid().
WmsLayersAddedAlways(valid) == 1

\* The number of layers QgsProject.addMapLayer adds (lines 634-642).
WmsLayersAdded(valid) == IF valid THEN 1 ELSE 0

\* The WMS branch of triggerResult (lines 613-644).
TriggerWms(ts, valid) ==
    [ts EXCEPT !.project_layers = @ + WmsLayersAdded(valid),
               !.messages = Append(@, IF valid THEN "Info" ELSE "Warning")]

\* The feature branch (lines 647-652).
TriggerFeature(ts, r, n) ==
    LET point == transform(fromPointXY(r.point), "transform_4326")
        shown == highlight(ts, point, point)
    IN  IF show_map_tip THEN ShowMapTip(shown, r.layer, r.feature_id, point, n)
        ELSE shown

\* The location branch (lines 654-676); empty says that `not point or not
\* bbox` holds for the two geometries.
TriggerLocation(ts, r, empty, n) ==
    IF empty THEN ts
    ELSE LET point == transform(fromPointXY(r.point), "transform_ch")
             bbox == transform(fromRect(r.bbox), "transform_ch")
             shown == highlight(ts, point, bbox)
         IN  IF Truthy(r.layer) /\ Truthy(r.feature_id)
             THEN LET fetched == fetch_feature(shown, r.layer, r.feature_id, n)
                  IN  IF show_map_tip
                      THEN ShowMapTip(fetched, r.layer, r.feature_id, point, n)
                      ELSE fetched
             ELSE [shown EXCEPT !.current_timer = <<"active">>]

TriggerInit ==
    /\ show_map_tip \in BOOLEAN
    /\ triggers = 0
    /\ trigger_args = [wms_valid |-> FALSE, empty_geometry |-> FALSE]
    /\ swiss_result = Unset
    /\ rubber_band = <<>>
    /\ feature_rubber_band = <<>>
    /\ map_tip = <<>>
    /\ current_timer = <<>>
    /\ nam_fetch_feature = <<>>
    /\ nam_map_tip = <<>>
    /\ extent = FullExtent
    /\ project_layers = 0
    /\ messages = <<>>

TriggerIdle ==
    /\ show_map_tip = FALSE
    /\ triggers = 0
    /\ trigger_args = [wms_valid |-> FALSE, empty_geometry |-> FALSE]
    /\ swiss_result = Unset
    /\ rubber_band = <<>>
    /\ feature_rubber_band = <<>>
    /\ map_tip = <<>>
    /\ current_timer = <<>>
    /\ nam_fetch_feature = <<>>
    /\ nam_map_tip = <<>>
    /\ extent = FullExtent
    /\ project_layers = 0
    /\ messages = <<>>

\* triggerResult(result) (lines 597-676) on a result whose user data decodes:
\* valid is wms_layer.isValid(), empty the outcome of `not point or not bbox`.
\* trigger_args keeps the two, swiss_result the decoded result.
TriggerResult(userData, valid, empty) ==
    /\ triggers < MaxTriggers
    /\ triggers' = triggers + 1
    /\ LET r == result_from_data(userData)
           cleared == clearPreviousResults(CurTrigger)
       IN  /\ swiss_result' = r
           /\ trigger_args' =
                 [wms_valid |-> r.type = "WMSLayerResult" /\ valid,
                  empty_geometry |-> r.type = "LocationResult" /\ empty]
           /\ (r.type # "WMSLayerResult" => valid)
           /\ (r.type # "LocationResult" => ~empty)
           /\ SetTrigger(
                 IF r.type = "NoResult" THEN cleared
                 ELSE IF r.type = "WMSLayerResult" THEN TriggerWms(cleared, valid)
                 ELSE IF r.type = "FeatureResult"
                 THEN TriggerFeature(cleared, r, triggers + 1)
                 ELSE TriggerLocation(cleared, r, empty, triggers + 1))
    /\ UNCHANGED show_map_tip
    /\ UNCHANGED <<chunk_vars, codec_vars, search_vars>>

\* parse_feature_response(response) (lines 702-725): a reply of another
\* status than 200, a reply without feature geometry or rings, or a reply
\* with the rings of the feature.
ParseFeatureResponse(reply) ==
    /\ nam_fetch_feature # <<>>
    /\ nam_fetch_feature[1].state = "running"
    /\ SetTrigger(
          [(IF reply = "rings"
            THEN [CurTrigger EXCEPT !.feature_rubber_band =
                     <<[of |-> nam_fetch_feature[1].of,
                        geometry |-> transform(
                            Geometry("Polygon", nam_fetch_feature[1].feature_id),
                            "transform_ch")]>>]
            ELSE CurTrigger)
           EXCEPT !.nam_fetch_feature[1].state = "finished"])
    /\ UNCHANGED <<show_map_tip, triggers, trigger_args, swiss_result>>
    /\ UNCHANGED <<chunk_vars, codec_vars, search_vars>>

\* parse_map_tip_response(response, point) (lines 742-751).
ParseMapTipResponse(reply) ==
    /\ nam_map_tip # <<>>
    /\ nam_map_tip[1].state = "running"
    /\ SetTrigger(
          [(IF reply = "html"
            THEN [CurTrigger EXCEPT !.map_tip =
                     <<[of |-> nam_map_tip[1].of, point |-> nam_map_tip[1].point]>>]
            ELSE CurTrigger)
           EXCEPT !.nam_map_tip[1].state = "finished"])
    /\ UNCHANGED <<show_map_tip, triggers, trigger_args, swiss_result>>
    /\ UNCHANGED <<chunk_vars, codec_vars, search_vars>>

\* The single-shot timer of line 673 fires: clearPreviousResults.
TimerTimeout ==
    /\ current_timer # <<>>
    /\ SetTrigger(clearPreviousResults(CurTrigger))
    /\ UNCHANGED <<show_map_tip, triggers, trigger_args, swiss_result>>
    /\ UNCHANGED <<chunk_vars, codec_vars, search_vars>>

\* The map tip is closed (line 751): clearPreviousResults.
MapTipClosed ==
    /\ map_tip # <<>>
    /\ SetTrigger(clearPreviousResults(CurTrigger))
    /\ UNCHANGED <<show_map_tip, triggers, trigger_args, swiss_result>>
    /\ UNCHANGED <<chunk_vars, codec_vars, search_vars>>

\* ======================================================================
\* The specifications
\* ======================================================================
vars == <<chunk_vars, codec_vars, search_vars, trigger_vars>>

InitChunks == ChunkInit /\ CodecIdle /\ SearchIdle /\ TriggerIdle
NextChunks == ChunkIteration
SpecChunks == InitChunks /\ [][NextChunks]_vars

InitCodec == CodecInit /\ ChunkIdle /\ SearchIdle /\ TriggerIdle
NextCodec == CodecEncode \/ CodecDecode
SpecCodec == InitCodec /\ [][NextCodec]_vars

Init == SearchInit /\ ChunkIdle /\ CodecIdle /\ TriggerIdle
Next ==
    \/ \E text \in SearchTexts : FetchResults(text)
    \/ BlockingReply
    \/ ParseCapabilitiesResult
    \/ \E i \in 1..MaxChunks, k \in 0..MaxResults, matches \in BOOLEAN :
          \E response \in Replies : ReplyFinished(i, response, k, matches)
    \/ Cancel
Spec == Init /\ [][Next]_vars

InitTrigger == TriggerInit /\ ChunkIdle /\ CodecIdle /\ SearchIdle
NextTrigger ==
    \/ \E userData \in TriggerUserData, valid \in BOOLEAN, empty \in BOOLEAN :
          TriggerResult(userData, valid, empty)
    \/ \E reply \in {"error", "no rings", "rings"} : ParseFeatureResponse(reply)
    \/ \E reply \in {"error", "html"} : ParseMapTipResponse(reply)
    \/ TimerTimeout
    \/ MapTipClosed
SpecTrigger == InitTrigger /\ [][NextTrigger]_vars

\* ======================================================================
\* The claims
\* ======================================================================
RealEntry(e) == e.kind # "NoResult"

\* The entries emitted while call number c was in progress.
EntriesDuring(c) == {i \in 1..Len(emitted) : emitted[i].during = c}

\* The entries emitted after the last call returned.
EntriesAfterReturn ==
    {i \in 1..Len(emitted) :
        /\ emitted[i].during = 0
        /\ \E j \in EntriesDuring(calls) : j < i}

\* C1: when the feedback is cancelled while fetchResults waits on requests,
\* every request of the search that is in flight at that moment is aborted.
C1_CancelAbortsInFlight ==
    [][(canceled' /\ ~canceled /\ calls' = calls) => InFlight \subseteq aborted']_vars

\* C2: once the chunking loop has ended, every searchable layer is in the
\* 'features' list of exactly one request, and no list has more than 30
\* layers.
C2_EveryLayerInExactlyOneRequest ==
    (chunk_layers >= 1 /\ ChunkLoopDone) =>
        /\ \A layer \in 0..(chunk_layers - 1) :
              Cardinality({i \in 1..Len(chunk_keys) :
                  \E j \in 1..Len(chunk_keys[i]) : chunk_keys[i][j] = layer}) = 1
        /\ \A i \in 1..Len(chunk_keys) : Len(chunk_keys[i]) <= step

\* C3: in a feature search that is not cancelled, reply_finished has called
\* event_loop.quit() only if the reply of every chunk request has been
\* handled (no entry of access_managers still holds a running request).
C3_QuitOnlyWhenAllHandled ==
    event_loop = "quit:reply_finished" =>
        \A i \in 1..Len(access_managers) : access_managers[i].nam # "running"

TriggerStep == triggers' = triggers + 1

\* What triggerResult does for a WMSLayerResult: one layer more if the WMS
\* layer is valid and none otherwise, one message (Info if added, Warning if
\* not), the same extent.
TriggerWmsEffect ==
    LET valid == trigger_args'.wms_valid
    IN  /\ project_layers' = project_layers + (IF valid THEN 1 ELSE 0)
        /\ messages' = Append(messages, IF valid THEN "Info" ELSE "Warning")
        /\ extent' = extent

\* What it does for a highlighted result: the point highlight holds the
\* point of the result and the extent is the scaled bounding box of rect;
\* no layer is added.
TriggerHighlightEffect(rect) ==
    /\ Len(rubber_band') = 1
    /\ rubber_band'[1].coords = swiss_result'.point
    /\ extent'.rect = Scaled(rect)
    /\ extent' # FullExtent
    /\ project_layers' = project_layers

PointRect(p) == [xmin |-> p.x, ymin |-> p.y, xmax |-> p.x, ymax |-> p.y]

\* What it does for a NoResult: no layer, the same extent, no request.
TriggerNoResultEffect ==
    /\ project_layers' = project_layers
    /\ extent' = extent
    /\ UNCHANGED <<nam_fetch_feature, nam_map_tip, messages>>

\* C5 (as amended): triggerResult acts by the variant of the decoded result.
\* A WMSLayerResult adds one layer if the WMS layer is valid and none
\* otherwise, emits one message and keeps the extent; a FeatureResult, and a
\* LocationResult whose point and bbox geometries are not empty, sets the
\* point highlight and the extent and adds no layer; a LocationResult with
\* an empty geometry leaves the highlight cleared, the extent unchanged and
\* adds no layer; a NoResult adds no layer, keeps the extent and starts no
\* request.
C5_TriggerActsByVariant ==
    [][TriggerStep =>
         LET r == swiss_result'
         IN  /\ r.type = "WMSLayerResult" => TriggerWmsEffect
             /\ r.type = "FeatureResult" => TriggerHighlightEffect(PointRect(r.point))
             /\ (r.type = "LocationResult" /\ ~trigger_args'.empty_geometry) =>
                   TriggerHighlightEffect(r.bbox)
             /\ (r.type = "LocationResult" /\ trigger_args'.empty_geometry) =>
                   /\ rubber_band' = <<>>
                   /\ extent' = extent
                   /\ project_layers' = project_layers
             /\ r.type = "NoResult" => TriggerNoResultEffect]_vars

\* C5 (as claimed): the same, with every LocationResult setting the point
\* highlight and the extent.
C5_EveryLocationHighlights ==
    [][TriggerStep =>
         LET r == swiss_result'
         IN  /\ r.type = "WMSLayerResult" => TriggerWmsEffect
             /\ r.type = "FeatureResult" => TriggerHighlightEffect(PointRect(r.point))
             /\ r.type = "LocationResult" => TriggerHighlightEffect(r.bbox)
             /\ r.type = "NoResult" => TriggerNoResultEffect]_vars

\* A valid WMS layer has been added by the first triggerResult, and the
\* second has highlighted a LocationResult with a feature id.
C5_Witness ==
    /\ triggers = 2
    /\ swiss_result.type = "LocationResult"
    /\ ~trigger_args.empty_geometry
    /\ swiss_result.feature_id # None
    /\ project_layers = 1
    /\ messages = <<"Info">>
    /\ rubber_band # <<>>
    /\ extent.transform = "transform_ch"

\* The lengths the specification requires of a search text: 2 characters for
\* every filter type, 4 for the Feature filter.
ShorterThanRequired(text, t) ==
    text < 2 \/ (t = "Feature" /\ text < 4)

\* C6: once a call with a qualifying search text has returned, it has emitted
\* 'No result found.' exactly once if it emitted no real result and not at
\* all if it emitted one, and the no-result entry does not appear together
\* with a real result of the same search.
C6_NoResultIffNothingFound ==
    (pc = "idle" /\ calls > 0 /\ ~ShorterThanRequired(search, type)) =>
        LET mine == EntriesDuring(calls)
            real == {i \in mine : RealEntry(emitted[i])}
            none == {i \in mine : ~RealEntry(emitted[i])}
        IN  /\ Cardinality(none) = (IF real = {} THEN 1 ELSE 0)
            /\ none # {} =>
                  \A i \in EntriesAfterReturn : ~RealEntry(emitted[i])

\* C7: a fetchResults call with a too-short search text starts no request,
\* emits nothing and leaves result_found and access_managers unchanged.
C7_TooShortDoesNothing ==
    [][(calls' = calls + 1 /\ ShorterThanRequired(search', type)) =>
          UNCHANGED <<result_found, access_managers, emitted, pc, search_urls,
                      cap_nam, event_loop, aborted, found_before>>]_vars

\* A too-short feature search (3 characters) was made after a search that
\* found a result.
C7_Witness ==
    /\ type = "Feature"
    /\ calls = 2
    /\ search = 3
    /\ result_found
    /\ emitted # <<>>

\* C8: result_found and access_managers carry nothing from an earlier search
\* into a qualifying one: every entry emitted during a call was built from a
\* reply to a request for that call's search text, every request waited on
\* is a request for it, result_found says whether this call has emitted a
\* real result, and the call ends with 'No result found.' exactly if it has
\* not.
C8_SearchKeepsNoState ==
    /\ \A i \in EntriesDuring(calls) : calls > 0 => emitted[i].query = search
    /\ pc = "loop" =>
          \A i \in 1..Len(access_managers) :
              access_managers[i].url.searchText = search
    /\ pc # "idle" =>
          (result_found <=> \E i \in EntriesDuring(calls) : RealEntry(emitted[i]))
    /\ (pc = "idle" /\ calls > 0 /\ ~ShorterThanRequired(search, type)) =>
          ((\E i \in EntriesDuring(calls) : ~RealEntry(emitted[i]))
             <=> ~(\E i \in EntriesDuring(calls) : RealEntry(emitted[i])))

\* A search that started on a filter object whose result_found was still
\* True from an earlier search found nothing and said so.
C8_Witness ==
    /\ calls = 2
    /\ pc = "idle"
    /\ found_before
    /\ ~ShorterThanRequired(search, type)
    /\ \E i \in EntriesDuring(2) : ~RealEntry(emitted[i])

\* C9: in a feature search, once every chunk request has delivered its
\* reply, fetchResults has left the event loop.
C9_AllRepliedThenReturned ==
    pc = "loop" =>
        \E i \in 1..Len(access_managers) : access_managers[i].nam = "running"

\* C10: once the reply of the GetCapabilities request has been delivered,
\* handle_response no longer waits in the nested event loop.
C10_CapabilitiesReplyEndsLoop ==
    pc = "cap" => cap_nam.state = "running"

\* The urls the specification has a Location or WMS search request, in order.
RequiredUrls ==
    <<"SearchServer">> \o
        (IF type = "WMS" /\ include_opendataswiss
         THEN <<"opendata.swiss">> ELSE <<>>)

\* The number of results the responses of the first n requests carried.
RECURSIVE ResultsCarried(_)
ResultsCarried(n) ==
    IF n = 0 THEN 0 ELSE requests[n].results + ResultsCarried(n - 1)

\* C11: a Location or WMS search requests its urls one after another in list
\* order (the search server, then opendata.swiss for the WMS filter with the
\* setting on); once it has returned every url has been requested, whatever
\* request raised, and every result a response carried has been emitted.
C11_AllUrlsRequestedInOrder ==
    (type # "Feature" /\ calls > 0 /\ ~ShorterThanRequired(search, type)) =>
        /\ Len(requests) <= Len(RequiredUrls)
        /\ \A i \in 1..Len(requests) :
              /\ requests[i].url = RequiredUrls[i]
              /\ i < Len(requests) => requests[i].outcome # "pending"
        /\ pc = "idle" =>
              /\ Len(requests) = Len(RequiredUrls)
              /\ \A i \in 1..Len(requests) : requests[i].outcome # "pending"
              /\ Cardinality({i \in EntriesDuring(calls) : RealEntry(emitted[i])})
                    = ResultsCarried(Len(requests))

\* The request to the search server raised a RequestsException, and the
\* results of the opendata.swiss response were emitted all the same.
C11_Witness ==
    /\ pc = "idle"
    /\ Len(requests) = 2
    /\ requests[1].outcome = "RequestsException"
    /\ requests[2].url = "opendata.swiss"
    /\ requests[2].outcome = "200"
    /\ requests[2].results = 2
    /\ logged = <<"RequestsException">>
    /\ Len(emitted) = 2
    /\ result_found

\* The requests whose response handle_response is given in this step, by
\* what the response is.
HandledNow(outcome) ==
    {i \in 1..Len(requests) :
        /\ requests[i].outcome = "pending"
        /\ requests'[i].outcome = outcome}

\* C12: a step in which handle_response is given a response of a status
\* other than 200 emits no result (fetchResults may end in that step with
\* its own 'No result found.'), leaves result_found as it is, and logs one
\* error message for the response unless its exception is a user abort, for
\* which nothing is logged.
C12_Not200EmitsNothing ==
    [][(/\ calls' = calls
        /\ HandledNow("not 200") \cup HandledNow("user abort") # {}) =>
          /\ result_found' = result_found
          /\ \/ emitted' = emitted
             \/ emitted' = Append(emitted, Entry("NoResult", search, calls))
          /\ logged' = logged \o
                [j \in 1..Cardinality(HandledNow("not 200")) |->
                   "Error in main response"]]_vars

\* A feature search that had found a result got a response of another status
\* for one request, and the response of a user abort for a third.
C12_Witness ==
    /\ pc = "idle"
    /\ canceled
    /\ result_found
    /\ logged = <<"Error in main response">>
    /\ \E i \in 1..Len(requests) : requests[i].outcome = "not 200"
    /\ \E i \in 1..Len(requests) : requests[i].outcome = "user abort"

\* C13: the polygon highlight and the map tip belong to the most recently
\* triggered result: a geometry of the feature rubber band and the map tip
\* stem from a request that the last triggerResult call has started.
C13_HighlightOfLastTrigger ==
    /\ \A i \in 1..Len(feature_rubber_band) :
          feature_rubber_band[i].of = triggers
    /\ \A i \in 1..Len(map_tip) : map_tip[i].of = triggers
====
